---------------------------- MODULE Spec2Model ----------------------------
(***************************************************************************)
(* A model of libc/bionic/pthread_setname_np.cpp.                          *)
(*                                                                         *)
(* Every thread of the process may make one call of pthread_setname_np.    *)
(* A call is a small program: one step per statement group of the source, *)
(* one step per system call.  The kernel is the environment: the result   *)
(* of each system call is chosen nondeterministically among the results   *)
(* the call can have, and the kernel's task table (the comm names) and    *)
(* descriptor table are part of the state.                                 *)
(*                                                                         *)
(* A byte is a one-character string, a C string is a sequence of bytes     *)
(* that ends with NUL, and the null pointer is the sequence of no bytes.   *)
(***************************************************************************)
EXTENDS Integers, Sequences, FiniteSets, TLC

(***************************************************************************)
(* Bounds of the model.                                                    *)
(***************************************************************************)
\* Threads of the process: the handles 1..NumThreads (0 is the null handle).
NumThreads == 3
\* Longest name (terminator excluded) a caller passes.
MaxNameLen == 17
\* How many times the write of one call may be interrupted by a signal.
MaxEintr == 2
\* Kernel id of thread 1; thread h has kernel id FirstTid + h - 1.
FirstTid == 98

(***************************************************************************)
(* Program constants.                                                      *)
(***************************************************************************)
MAX_TASK_COMM_LEN == 16
TASK_COMM_FMT ==
    << "/", "p", "r", "o", "c", "/", "s", "e", "l", "f", "/",
       "t", "a", "s", "k", "/", "%", "u", "/", "c", "o", "m", "m" >>
\* sizeof(TASK_COMM_FMT): the characters and the terminator.
SizeofTaskCommFmt == Len(TASK_COMM_FMT) + 1
\* Mutant: room for 7 more bytes than the format, not 8.
SizeofCommName_OneLess == SizeofTaskCommFmt + 7

\* char comm_name[sizeof(TASK_COMM_FMT) + 8]
SizeofCommName == SizeofTaskCommFmt + 8

\* errno values of the Linux ABI that the function names or the kernel sets.
EINTR == 4
EIO == 5
EBADF == 9
EACCES == 13
EFAULT == 14
ENOENT == 2
EINVAL == 22
ERANGE == 34

NUL == "\\0"
NULL == << >>
NameChars == {"a", "b"}

Threads == 1..NumThreads
Handles == 0..NumThreads

(***************************************************************************)
(* Pure functions.                                                         *)
(***************************************************************************)
\* A C string of len copies of ch.
CString(len, ch) == [i \in 1..(len + 1) |-> IF i <= len THEN ch ELSE NUL]

\* The names callers pass: the null pointer and the strings of 0..MaxNameLen bytes.
Names == {NULL} \cup {CString(l, ch) : l \in 0..MaxNameLen, ch \in NameChars}

\* strlen: the number of bytes before the first NUL.
RECURSIVE StrLenFrom(_, _)
StrLenFrom(s, i) == IF s[i] = NUL THEN i - 1 ELSE StrLenFrom(s, i + 1)
strlen(s) == StrLenFrom(s, 1)

\* The first k bytes of a buffer.
Bytes(s, k) == SubSeq(s, 1, k)

\* t->kernel_id of the thread a handle points to.
kernel_id(h) == FirstTid + h - 1

\* An unsigned int is kept as its two 16-bit halves, so that all 32 bits fit.
Half == 65536

\* Mutant: the id next to the one in the handle is taken.
ToUnsignedInt_NextId(k) == [hi |-> (k + 1) \div Half, lo |-> (k + 1) % Half]

\* (unsigned int) of a pid_t: the value modulo 2^32 (two's complement for k < 0).
ToUnsignedInt(k) ==
    IF k >= 0 THEN [hi |-> k \div Half, lo |-> k % Half]
    ELSE LET m == -(k + 1) IN
         [hi |-> (Half - 1) - (m \div Half), lo |-> (Half - 1) - (m % Half)]

Digit(d) == CASE d = 0 -> "0" [] d = 1 -> "1" [] d = 2 -> "2" [] d = 3 -> "3"
              [] d = 4 -> "4" [] d = 5 -> "5" [] d = 6 -> "6" [] d = 7 -> "7"
              [] d = 8 -> "8" [] d = 9 -> "9"

\* u / 10 and u % 10 of an unsigned int, by long division over the halves.
DivTen(u) ==
    LET r == (u.hi % 10) * Half + u.lo
    IN  [hi |-> u.hi \div 10, lo |-> r \div 10]
ModTen(u) == ((u.hi % 10) * Half + u.lo) % 10

\* %u: the decimal digits of an unsigned int, most significant first.
RECURSIVE DecimalU(_)
DecimalU(u) == IF u.hi = 0 /\ u.lo < 10 THEN << Digit(u.lo) >>
               ELSE Append(DecimalU(DivTen(u)), Digit(ModTen(u)))

\* The expansion of a format with one %u conversion.
RECURSIVE Expand(_, _, _)
Expand(fmt, i, u) ==
    IF i > Len(fmt) THEN << >>
    ELSE IF fmt[i] = "%" /\ i < Len(fmt) /\ fmt[i + 1] = "u"
         THEN DecimalU(u) \o Expand(fmt, i + 2, u)
         ELSE << fmt[i] >> \o Expand(fmt, i + 1, u)

\* snprintf(buf, size, fmt, u): at most size - 1 characters, then the terminator.
snprintf(size, fmt, u) ==
    LET full == Expand(fmt, 1, u)
        kept == IF Len(full) <= size - 1 THEN full ELSE SubSeq(full, 1, size - 1)
    IN  Append(kept, NUL)

(***************************************************************************)
(* State.                                                                  *)
(***************************************************************************)
VARIABLES
    callers,          \* the threads that call pthread_setname_np
    pc,               \* pc[c]: where thread c is in its call
    thread,           \* the arguments of the call of c
    thread_name,
    thread_name_len,  \* the locals of the call of c
    comm_name,
    fd,
    n,
    eintr,            \* how many times the write of c was interrupted
    errno,            \* errno of thread c (thread local)
    saved_errno,      \* the value ErrnoRestorer holds
    entry_errno,      \* errno of thread c when its call was entered
    ret,              \* the value the call of c returned
    trace,            \* the system calls c issued, with their results
    reads,            \* what the call of c dereferenced
    comm,             \* kernel: the comm name of each task, by kernel id
    fdtable,          \* kernel: the open descriptors of the process
    calc              \* the evaluation of a macro of the kernel headers

\* The state of the calls of pthread_setname_np and of the kernel.
callVars == << callers, pc, thread, thread_name, thread_name_len, comm_name, fd, n,
               eintr, errno, saved_errno, entry_errno, ret, trace, reads, comm,
               fdtable >>

vars == << callVars, calc >>

\* No macro is being evaluated.
NoCalc == [op |-> "none"]

Tids == {kernel_id(h) : h \in Threads}
OldName(t) == << "o", "l", "d" >>
EntryErrnos == {0, ENOENT}

\* The value of a local before its first assignment (never read).
Unset == -1

\* __get_thread(): the handle of the calling thread.
pthread_self(c) == c

(***************************************************************************)
(* The kernel, as far as the function talks to it.                         *)
(***************************************************************************)
\* The decimal name of a task's directory under /proc/self/task.
RECURSIVE TaskDirName(_)
TaskDirName(t) == IF t < 10 THEN << Digit(t) >>
                  ELSE Append(TaskDirName(t \div 10), Digit(t % 10))

\* The proc entry that holds the comm name of task t.
ProcCommPath(t) ==
    << "/", "p", "r", "o", "c", "/", "s", "e", "l", "f", "/", "t", "a", "s", "k", "/" >>
    \o TaskDirName(t) \o << "/", "c", "o", "m", "m", NUL >>

\* The tasks a path names (one or none).
TasksOfPath(path) == {t \in Tids : ProcCommPath(t) = path}

\* open gives the lowest descriptor that is not in use.
RECURSIVE LowestFreeFrom(_, _)
LowestFreeFrom(open, f) == IF f \in open THEN LowestFreeFrom(open, f + 1) ELSE f
LowestFree(open) == LowestFreeFrom(open, 0)

PrctlErrnos == {EFAULT}
OpenErrnos == {ENOENT, EACCES}
WriteErrnos == {EIO, EACCES}
CloseErrnos == {EINTR, EIO}

Outcome(res, err, task) == [res |-> res, err |-> err, task |-> task]

\* prctl(PR_SET_NAME, name): 0, or -1 with errno set.
PrctlOutcomes == {Outcome(0, 0, 0)} \cup {Outcome(-1, e, 0) : e \in PrctlErrnos}

\* open(path, O_RDWR): the lowest free descriptor when the path names a task's
\* comm entry, or -1 with errno set (ENOENT alone when the path names nothing).
OpenOutcomes(path, open) ==
    {Outcome(LowestFree(DOMAIN open), 0, t) : t \in TasksOfPath(path)}
    \cup {Outcome(-1, e, 0) :
            e \in IF TasksOfPath(path) = {} THEN {ENOENT} ELSE OpenErrnos}

\* write(f, buf, count): a count of 0..count bytes, or -1 with errno set; a signal
\* may interrupt it (EINTR) while interrupts are left.
WriteOutcomes(f, count, open, interrupts) ==
    IF f \notin DOMAIN open \/ open[f] \notin Tids
    THEN {Outcome(-1, EBADF, 0)}
    ELSE {Outcome(k, 0, open[f]) : k \in 0..count}
         \cup {Outcome(-1, e, 0) : e \in WriteErrnos}
         \cup (IF interrupts > 0 THEN {Outcome(-1, EINTR, 0)} ELSE {})

\* close(f): 0, or -1 with errno set; the descriptor is released either way.
CloseOutcomes(f, open) ==
    IF f \notin DOMAIN open
    THEN {Outcome(-1, EBADF, 0)}
    ELSE {Outcome(0, 0, 0)} \cup {Outcome(-1, e, 0) : e \in CloseErrnos}

\* errno after a system call: set when the call failed, left alone otherwise.
ErrnoAfter(old, out) == IF out.res = -1 THEN out.err ELSE old

\* A system call as the trace records it: what was passed, what came back.
Ev(call, path, f, buf, len, res, err) ==
    [call |-> call, path |-> path, fd |-> f, buf |-> buf, len |-> len,
     res |-> res, err |-> err]

\* The trace keeps the first TraceCap calls: as many as a call can issue (an open,
\* MaxEintr + 1 writes and a close).
TraceCap == MaxEintr + 3

Issue(c, ev) ==
    trace' = [trace EXCEPT ![c] = IF Len(@) < TraceCap THEN Append(@, ev) ELSE @]

(***************************************************************************)
(* The decisions of pthread_setname_np.                                    *)
(***************************************************************************)
\* Mutant: the two tests joined by && instead of ||.
InvalidArgs_BothNull(h, name) == h = 0 /\ name = NULL

\* thread == 0 || thread_name == NULL
InvalidArgs(h, name) == h = 0 \/ name = NULL

\* Mutant: > instead of >=, which lets a 16-byte name through.
NameTooLong_OffByOne(len) == len > MAX_TASK_COMM_LEN

\* Mutant: an empty name turned away with the long ones.
NameTooLong_OrEmpty(len) == len >= MAX_TASK_COMM_LEN \/ len = 0

\* thread_name_len >= MAX_TASK_COMM_LEN
NameTooLong(len) == len >= MAX_TASK_COMM_LEN

\* Mutant: the result of prctl returned as it is, instead of errno.
PrctlReturn_RawResult(rc, e) == rc

\* prctl(...) ? errno : 0
PrctlReturn(rc, e) == IF rc # 0 THEN e ELSE 0

\* Mutant: the test of the descriptor never sees the failure.
OpenFailed_Unchecked(f) == f < -1

\* fd == -1
OpenFailed(f) == f = -1

\* Mutant: the terminator is written too.
WriteCount_WithTerminator(len) == len + 1

\* The count passed to write: thread_name_len.
WriteCount(len) == len

\* Mutant: a plain write, never made again.
RetryWrite_Never(rc, e) == FALSE

\* Mutant: the write is made again after any failure.
RetryWrite_AnyError(rc, e) == rc = -1

\* TEMP_FAILURE_RETRY: the call is made again while (_rc == -1 && errno == EINTR).
RetryWrite(rc, e) == rc = -1 /\ e = EINTR

\* Mutant: the short-write test is left out.
ResultCode_NoShortCheck(count, len, e) == IF count < 0 THEN e ELSE 0

\* Mutant: the result of the write returned as it is, instead of errno.
ResultCode_RawCount(count, len, e) ==
    IF count < 0 THEN count
    ELSE IF count # len THEN EIO
    ELSE 0

\* if (n < 0) return errno; else if ((size_t)n != thread_name_len) return EIO; return 0;
ResultCode(count, len, e) ==
    IF count < 0 THEN e
    ELSE IF count # len THEN EIO
    ELSE 0

InitWith(cs) ==
    /\ callers = cs
    /\ pc = [c \in Threads |-> "idle"]
    /\ thread = [c \in Threads |-> 0]
    /\ thread_name = [c \in Threads |-> NULL]
    /\ thread_name_len = [c \in Threads |-> Unset]
    /\ comm_name = [c \in Threads |-> << >>]
    /\ fd = [c \in Threads |-> Unset]
    /\ n = [c \in Threads |-> Unset]
    /\ eintr = [c \in Threads |-> 0]
    /\ errno \in {e \in [Threads -> EntryErrnos] : \A c \in Threads \ cs : e[c] = 0}
    /\ saved_errno = [c \in Threads |-> 0]
    /\ entry_errno = [c \in Threads |-> 0]
    /\ ret = [c \in Threads |-> Unset]
    /\ trace = [c \in Threads |-> << >>]
    /\ reads = [c \in Threads |-> {}]
    /\ comm = [t \in Tids |-> OldName(t)]
    /\ fdtable = [f \in {0, 1, 2} |-> 0]

Init == InitWith({1}) /\ calc = NoCalc

(***************************************************************************)
(* The call, step by step.                                                 *)
(***************************************************************************)
\* ErrnoRestorer (private/ErrnoRestorer.h): the constructor keeps the errno it
\* finds, the destructor stores the kept value back into errno.
ErrnoRestorer_Construct(current) == current
ErrnoRestorer_Destroy(kept, current) == kept

\* Mutant: the declaration of errno_restorer left out, so that errno stays as
\* the system calls left it.
Return_WithoutRestorer(c, value) ==
    /\ ret' = [ret EXCEPT ![c] = value]
    /\ errno' = errno
    /\ pc' = [pc EXCEPT ![c] = "done"]

\* return value; then the destructor of errno_restorer runs.
Return(c, value) ==
    /\ ret' = [ret EXCEPT ![c] = value]
    /\ errno' = [errno EXCEPT ![c] = ErrnoRestorer_Destroy(saved_errno[c], @)]
    /\ pc' = [pc EXCEPT ![c] = "done"]

\* Entry: the arguments are bound and ErrnoRestorer saves errno.
Call(c, h, name) ==
    /\ c \in callers
    /\ pc[c] = "idle"
    /\ thread' = [thread EXCEPT ![c] = h]
    /\ thread_name' = [thread_name EXCEPT ![c] = name]
    /\ saved_errno' = [saved_errno EXCEPT ![c] = ErrnoRestorer_Construct(errno[c])]
    /\ pc' = [pc EXCEPT ![c] = "check_args"]
    /\ entry_errno' = [entry_errno EXCEPT ![c] = errno[c]]
    /\ UNCHANGED << calc, callers, thread_name_len, comm_name, fd, n, eintr, errno, ret,
                    trace, reads, comm, fdtable >>

\* if (thread == 0 || thread_name == NULL) return EINVAL;
CheckArgs(c) ==
    /\ pc[c] = "check_args"
    /\ IF InvalidArgs(thread[c], thread_name[c])
       THEN Return(c, EINVAL)
       ELSE /\ pc' = [pc EXCEPT ![c] = "check_len"]
            /\ UNCHANGED << ret, errno >>
    /\ UNCHANGED << calc, entry_errno, callers, thread, thread_name, thread_name_len, comm_name, fd, n,
                    eintr, saved_errno, trace, reads, comm, fdtable >>

\* thread_name_len = strlen(thread_name); if (len >= MAX_TASK_COMM_LEN) return ERANGE;
CheckLen(c) ==
    /\ pc[c] = "check_len"
    /\ LET len == strlen(thread_name[c]) IN
       /\ thread_name_len' = [thread_name_len EXCEPT ![c] = len]
       /\ reads' = [reads EXCEPT ![c] = @ \cup {"thread_name"}]
       /\ IF NameTooLong(len)
          THEN Return(c, ERANGE)
          ELSE /\ pc' = [pc EXCEPT ![c] = "rename"]
               /\ UNCHANGED << ret, errno >>
    /\ UNCHANGED << calc, entry_errno, callers, thread, thread_name, comm_name, fd, n, eintr,
                    saved_errno, trace, comm, fdtable >>

\* if (thread == pthread_self()) return prctl(PR_SET_NAME, thread_name) ? errno : 0;
\* On success the kernel copies the string to the caller's task.
SetSelfName(c) ==
    /\ pc[c] = "rename"
    /\ thread[c] = pthread_self(c)
    /\ \E out \in PrctlOutcomes :
          /\ Issue(c, Ev("prctl", << >>, Unset, thread_name[c], Unset, out.res, out.err))
          /\ comm' = IF out.res = 0
                     THEN [comm EXCEPT ![kernel_id(c)] =
                              Bytes(thread_name[c], strlen(thread_name[c]))]
                     ELSE comm
          /\ Return(c, PrctlReturn(out.res, ErrnoAfter(errno[c], out)))
    /\ UNCHANGED << calc, entry_errno, callers, thread, thread_name, thread_name_len, comm_name, fd, n,
                    eintr, saved_errno, reads, fdtable >>

\* snprintf(comm_name, ...); fd = open(comm_name, O_RDWR); if (fd == -1) return errno;
OpenComm(c) ==
    /\ pc[c] = "rename"
    /\ thread[c] # pthread_self(c)
    /\ LET path == snprintf(SizeofCommName, TASK_COMM_FMT,
                            ToUnsignedInt(kernel_id(thread[c])))
       IN
       /\ comm_name' = [comm_name EXCEPT ![c] = path]
       /\ reads' = [reads EXCEPT ![c] = @ \cup {"kernel_id"}]
       /\ \E out \in OpenOutcomes(path, fdtable) :
             /\ Issue(c, Ev("open", path, Unset, << >>, Unset, out.res, out.err))
             /\ fdtable' = IF out.res = -1 THEN fdtable
                           ELSE [f \in DOMAIN fdtable \cup {out.res} |->
                                    IF f = out.res THEN out.task ELSE fdtable[f]]
             /\ fd' = [fd EXCEPT ![c] = out.res]
             /\ IF OpenFailed(out.res)
                THEN Return(c, ErrnoAfter(errno[c], out))
                ELSE /\ pc' = [pc EXCEPT ![c] = "write"]
                     /\ errno' = [errno EXCEPT ![c] = ErrnoAfter(@, out)]
                     /\ ret' = ret
    /\ UNCHANGED << calc, entry_errno, callers, thread, thread_name, thread_name_len, n, eintr,
                    saved_errno, comm >>

\* One round of n = TEMP_FAILURE_RETRY(write(fd, thread_name, thread_name_len)).
\* The bytes the kernel accepts become the comm name of the file's task.
WriteName(c) ==
    /\ pc[c] = "write"
    /\ LET count == WriteCount(thread_name_len[c]) IN
       \E out \in WriteOutcomes(fd[c], count, fdtable, MaxEintr - eintr[c]) :
          /\ Issue(c, Ev("write", << >>, fd[c], thread_name[c], count, out.res, out.err))
          /\ eintr' = [eintr EXCEPT ![c] =
                          IF out.res = -1 /\ out.err = EINTR THEN @ + 1 ELSE @]
          /\ errno' = [errno EXCEPT ![c] = ErrnoAfter(@, out)]
          /\ comm' = IF out.res >= 0
                     THEN [comm EXCEPT ![out.task] = Bytes(thread_name[c], out.res)]
                     ELSE comm
          /\ IF RetryWrite(out.res, ErrnoAfter(errno[c], out))
             THEN UNCHANGED << n, pc >>
             ELSE /\ n' = [n EXCEPT ![c] = out.res]
                  /\ pc' = [pc EXCEPT ![c] = "close"]
    /\ UNCHANGED << calc, entry_errno, callers, thread, thread_name, thread_name_len, comm_name, fd,
                    saved_errno, ret, reads, fdtable >>

\* Mutant: the close left out, so that the descriptor stays open.
CloseFd_LeftOut(c) ==
    /\ pc[c] = "close"
    /\ pc' = [pc EXCEPT ![c] = "result"]
    /\ UNCHANGED << calc, entry_errno, callers, thread, thread_name, thread_name_len,
                    comm_name, fd, n, eintr, errno, saved_errno, ret, trace, reads,
                    comm, fdtable >>

\* close(fd);
CloseFd(c) ==
    /\ pc[c] = "close"
    /\ \E out \in CloseOutcomes(fd[c], fdtable) :
          /\ Issue(c, Ev("close", << >>, fd[c], << >>, Unset, out.res, out.err))
          /\ errno' = [errno EXCEPT ![c] = ErrnoAfter(@, out)]
    /\ fdtable' = [f \in DOMAIN fdtable \ {fd[c]} |-> fdtable[f]]
    /\ pc' = [pc EXCEPT ![c] = "result"]
    /\ UNCHANGED << calc, entry_errno, callers, thread, thread_name, thread_name_len, comm_name, fd, n,
                    eintr, saved_errno, ret, reads, comm >>

\* Mutant: n and thread_name_len declared static, so that a call sees the values
\* another call that has finished its write left there.
Result_StaticLocals(c) ==
    /\ pc[c] = "result"
    /\ LET wrote == {x \in Threads : pc[x] \in {"close", "result", "done"}
                                       /\ thread_name_len[x] # Unset /\ fd[x] >= 0}
           d == CHOOSE x \in wrote : \A y \in wrote : y <= x
       IN  Return(c, ResultCode(n[d], thread_name_len[d], errno[c]))
    /\ UNCHANGED << calc, entry_errno, callers, thread, thread_name, thread_name_len,
                    comm_name, fd, n, eintr, saved_errno, trace, reads, comm, fdtable >>

\* if (n < 0) return errno; else if ((size_t)n != thread_name_len) return EIO; return 0;
Result(c) ==
    /\ pc[c] = "result"
    /\ Return(c, ResultCode(n[c], thread_name_len[c], errno[c]))
    /\ UNCHANGED << calc, entry_errno, callers, thread, thread_name, thread_name_len, comm_name, fd, n,
                    eintr, saved_errno, trace, reads, comm, fdtable >>

\* A step of thread c, whose call takes its arguments from hs and ns.
Step(c, hs, ns) ==
    \/ \E h \in hs, name \in ns : Call(c, h, name)
    \/ CheckArgs(c)
    \/ CheckLen(c)
    \/ SetSelfName(c)
    \/ OpenComm(c)
    \/ WriteName(c)
    \/ CloseFd(c)
    \/ Result(c)

Next == \E c \in Threads : Step(c, Handles, Names)

Spec == Init /\ [][Next]_vars

(***************************************************************************)
(* Two threads call concurrently: threads 1 and 2, each with its own or    *)
(* the last thread's handle and a name of one byte.  Every interleaving of *)
(* their steps is a behaviour.                                             *)
(***************************************************************************)
ConcCallers == {1, 2}
ConcHandles == {1, NumThreads}
ConcNames == {CString(1, ch) : ch \in NameChars}

InitConc ==
    /\ InitWith(ConcCallers)
    /\ \A c \in Threads : errno[c] = 0
    /\ calc = NoCalc

NextConc == \E c \in Threads : Step(c, ConcHandles, ConcNames)

SpecConc == InitConc /\ [][NextConc]_vars

(***************************************************************************)
(* A thread that is in a call keeps running: its next step is taken, and   *)
(* every system call comes back.  A write comes back interrupted at most   *)
(* MaxEintr times in a call, after which it gives a count or another       *)
(* error.                                                                  *)
(***************************************************************************)
\* The names of the calls followed to their return: the null pointer, names of
\* 0 and 1 bytes, and a name that is too long.
LiveNames == {NULL} \cup {CString(l, "a") : l \in {0, 1, MaxNameLen}}

NextLive == \E c \in Threads : Step(c, Handles, LiveNames)

Fairness == \A c \in Threads : WF_vars(Step(c, Handles, LiveNames))

SpecLive == Init /\ [][NextLive]_vars /\ Fairness

(***************************************************************************)
(* libc/kernel/common/linux/ioprio.h: an I/O priority is a class in the    *)
(* bits from IOPRIO_CLASS_SHIFT up and data in the bits below.             *)
(***************************************************************************)
\* x << k, x >> k, a & b and a | b on numbers that are not negative.
ShiftLeft(x, k) == x * (2 ^ k)
ShiftRight(x, k) == x \div (2 ^ k)

RECURSIVE BitAnd(_, _)
BitAnd(a, b) ==
    IF a = 0 \/ b = 0 THEN 0
    ELSE (a % 2) * (b % 2) + 2 * BitAnd(a \div 2, b \div 2)

RECURSIVE BitOr(_, _)
BitOr(a, b) ==
    IF a = 0 THEN b
    ELSE IF b = 0 THEN a
    ELSE (IF a % 2 = 1 \/ b % 2 = 1 THEN 1 ELSE 0) + 2 * BitOr(a \div 2, b \div 2)

IOPRIO_BITS == 16
IOPRIO_CLASS_SHIFT == 13
IOPRIO_PRIO_MASK == ShiftLeft(1, IOPRIO_CLASS_SHIFT) - 1

IOPRIO_CLASS_NONE == 0
IOPRIO_CLASS_RT == 1
IOPRIO_CLASS_BE == 2
IOPRIO_CLASS_IDLE == 3

IOPRIO_PRIO_CLASS(mask) == ShiftRight(mask, IOPRIO_CLASS_SHIFT)

\* Mutant: the data taken without the mask.
IOPRIO_PRIO_DATA_Unmasked(mask) == mask

IOPRIO_PRIO_DATA(mask) == BitAnd(mask, IOPRIO_PRIO_MASK)
IOPRIO_PRIO_VALUE(class, data) == BitOr(ShiftLeft(class, IOPRIO_CLASS_SHIFT), data)
ioprio_valid(mask) == IOPRIO_PRIO_CLASS(mask) # IOPRIO_CLASS_NONE

\* The classes of the enum, and the data that fit below the class.
IoprioClasses ==
    {IOPRIO_CLASS_NONE, IOPRIO_CLASS_RT, IOPRIO_CLASS_BE, IOPRIO_CLASS_IDLE}
IoprioData == 0..IOPRIO_PRIO_MASK

\* A priority is put together from a class and data, then taken apart again.
IoprioCalc(step, class, data, value, out_class, out_data, valid) ==
    [op |-> "ioprio", step |-> step, class |-> class, data |-> data,
     value |-> value, out_class |-> out_class, out_data |-> out_data,
     valid |-> valid]

InitIoprio ==
    /\ InitWith({})
    /\ \E class \in IoprioClasses, data \in IoprioData :
          calc = IoprioCalc("args", class, data, 0, 0, 0, FALSE)

IoprioEncode ==
    /\ calc.op = "ioprio" /\ calc.step = "args"
    /\ calc' = [calc EXCEPT !.step = "encoded",
                            !.value = IOPRIO_PRIO_VALUE(calc.class, calc.data)]
    /\ UNCHANGED callVars

IoprioDecode ==
    /\ calc.op = "ioprio" /\ calc.step = "encoded"
    /\ calc' = [calc EXCEPT !.step = "decoded",
                            !.out_class = IOPRIO_PRIO_CLASS(calc.value),
                            !.out_data = IOPRIO_PRIO_DATA(calc.value),
                            !.valid = ioprio_valid(calc.value)]
    /\ UNCHANGED callVars

NextIoprio == IoprioEncode \/ IoprioDecode

SpecIoprio == InitIoprio /\ [][NextIoprio]_vars

(***************************************************************************)
(* libc/kernel/common/linux/msm_mdp.h: the word that names a               *)
(* post-processing block has a logical block number, a location and one    *)
(* bit per argument.                                                       *)
(***************************************************************************)
MDSS_PP_ARG_MASK == 15360
MDSS_PP_ARG_NUM == 4
MDSS_PP_ARG_SHIFT == 10
MDSS_PP_LOCATION_MASK == 768
MDSS_PP_LOGICAL_MASK == 255

\* Mutant: the argument bit is not moved up to the argument field.
MDSS_PP_ADD_ARG_NoShift(var, arg) == BitOr(var, ShiftLeft(1, arg))

MDSS_PP_ADD_ARG(var, arg) == BitOr(var, ShiftLeft(1, MDSS_PP_ARG_SHIFT + arg))
PP_ARG(x, var) == BitAnd(var, ShiftLeft(1, MDSS_PP_ARG_SHIFT + x))
PP_LOCAT(var) == BitAnd(var, MDSS_PP_LOCATION_MASK)
PP_BLOCK(var) == BitAnd(var, MDSS_PP_LOGICAL_MASK)

\* The words of the three fields and the arguments that have a bit.
MdssPpVars == 0..(ShiftLeft(1, MDSS_PP_ARG_SHIFT + MDSS_PP_ARG_NUM) - 1)
MdssPpArgs == 0..(MDSS_PP_ARG_NUM - 1)

\* An argument is added to a word, then the fields of the result are read.
InitMdssPp ==
    /\ InitWith({})
    /\ \E var \in MdssPpVars, arg \in MdssPpArgs :
          calc = [op |-> "mdss_pp", step |-> "args", var |-> var, arg |-> arg,
                  out |-> 0, pp_arg |-> [x \in MdssPpArgs |-> 0],
                  pp_locat |-> 0, pp_block |-> 0]

MdssPpAddArg ==
    /\ calc.op = "mdss_pp" /\ calc.step = "args"
    /\ calc' = [calc EXCEPT !.step = "added",
                            !.out = MDSS_PP_ADD_ARG(calc.var, calc.arg)]
    /\ UNCHANGED callVars

MdssPpRead ==
    /\ calc.op = "mdss_pp" /\ calc.step = "added"
    /\ calc' = [calc EXCEPT !.step = "read",
                            !.pp_arg = [x \in MdssPpArgs |-> PP_ARG(x, calc.out)],
                            !.pp_locat = PP_LOCAT(calc.out),
                            !.pp_block = PP_BLOCK(calc.out)]
    /\ UNCHANGED callVars

NextMdssPp == MdssPpAddArg \/ MdssPpRead

SpecMdssPp == InitMdssPp /\ [][NextMdssPp]_vars

(***************************************************************************)
(* libc/kernel/common/linux/msm_mdp.h: the ioctl commands of the           *)
(* framebuffer driver.  A command is _IO, _IOR, _IOW or _IOWR of the magic, *)
(* a number and the type of the argument, or another name for a command.   *)
(***************************************************************************)
\* 'm'
MSMFB_IOCTL_MAGIC == 109

\* The commands of the display, in the order of the header.
MsmfbDisplayDefines ==
    << [name |-> "MSMFB_GRP_DISP", macro |-> "_IOW",
        nr |-> 1, arg |-> "unsigned int"],
       [name |-> "MSMFB_BLIT", macro |-> "_IOW",
        nr |-> 2, arg |-> "unsigned int"],
       [name |-> "MSMFB_SUSPEND_SW_REFRESHER", macro |-> "_IOW",
        nr |-> 128, arg |-> "unsigned int"],
       [name |-> "MSMFB_RESUME_SW_REFRESHER", macro |-> "_IOW",
        nr |-> 129, arg |-> "unsigned int"],
       [name |-> "MSMFB_CURSOR", macro |-> "_IOW",
        nr |-> 130, arg |-> "struct fb_cursor"],
       [name |-> "MSMFB_SET_LUT", macro |-> "_IOW",
        nr |-> 131, arg |-> "struct fb_cmap"],
       [name |-> "MSMFB_HISTOGRAM", macro |-> "_IOWR",
        nr |-> 132, arg |-> "struct mdp_histogram_data"],
       [name |-> "MSMFB_GET_CCS_MATRIX", macro |-> "_IOWR",
        nr |-> 133, arg |-> "struct mdp_ccs"],
       [name |-> "MSMFB_SET_CCS_MATRIX", macro |-> "_IOW",
        nr |-> 134, arg |-> "struct mdp_ccs"],
       [name |-> "MSMFB_OVERLAY_SET", macro |-> "_IOWR",
        nr |-> 135, arg |-> "struct mdp_overlay"],
       [name |-> "MSMFB_OVERLAY_UNSET", macro |-> "_IOW",
        nr |-> 136, arg |-> "unsigned int"],
       [name |-> "MSMFB_OVERLAY_PLAY", macro |-> "_IOW",
        nr |-> 137, arg |-> "struct msmfb_overlay_data"],
       [name |-> "MSMFB_OVERLAY_QUEUE", macro |-> "alias",
        of |-> "MSMFB_OVERLAY_PLAY"],
       [name |-> "MSMFB_GET_PAGE_PROTECTION", macro |-> "_IOR",
        nr |-> 138, arg |-> "struct mdp_page_protection"],
       [name |-> "MSMFB_SET_PAGE_PROTECTION", macro |-> "_IOW",
        nr |-> 139, arg |-> "struct mdp_page_protection"],
       [name |-> "MSMFB_OVERLAY_GET", macro |-> "_IOR",
        nr |-> 140, arg |-> "struct mdp_overlay"],
       [name |-> "MSMFB_OVERLAY_PLAY_ENABLE", macro |-> "_IOW",
        nr |-> 141, arg |-> "unsigned int"],
       [name |-> "MSMFB_OVERLAY_BLT", macro |-> "_IOWR",
        nr |-> 142, arg |-> "struct msmfb_overlay_blt"],
       [name |-> "MSMFB_OVERLAY_BLT_OFFSET", macro |-> "_IOW",
        nr |-> 143, arg |-> "unsigned int"],
       [name |-> "MSMFB_HISTOGRAM_START", macro |-> "_IOR",
        nr |-> 144, arg |-> "struct mdp_histogram_start_req"],
       [name |-> "MSMFB_HISTOGRAM_STOP", macro |-> "_IOR",
        nr |-> 145, arg |-> "unsigned int"],
       [name |-> "MSMFB_NOTIFY_UPDATE", macro |-> "_IOWR",
        nr |-> 146, arg |-> "unsigned int"],
       [name |-> "MSMFB_OVERLAY_3D", macro |-> "_IOWR",
        nr |-> 147, arg |-> "struct msmfb_overlay_3d"],
       [name |-> "MSMFB_MIXER_INFO", macro |-> "_IOWR",
        nr |-> 148, arg |-> "struct msmfb_mixer_info_req"],
       [name |-> "MSMFB_OVERLAY_PLAY_WAIT", macro |-> "_IOWR",
        nr |-> 149, arg |-> "struct msmfb_overlay_data"],
       [name |-> "MSMFB_WRITEBACK_INIT", macro |-> "_IO",
        nr |-> 150, arg |-> ""],
       [name |-> "MSMFB_WRITEBACK_START", macro |-> "_IO",
        nr |-> 151, arg |-> ""],
       [name |-> "MSMFB_WRITEBACK_STOP", macro |-> "_IO",
        nr |-> 152, arg |-> ""],
       [name |-> "MSMFB_WRITEBACK_QUEUE_BUFFER", macro |-> "_IOW",
        nr |-> 153, arg |-> "struct msmfb_data"],
       [name |-> "MSMFB_WRITEBACK_DEQUEUE_BUFFER", macro |-> "_IOW",
        nr |-> 154, arg |-> "struct msmfb_data"],
       [name |-> "MSMFB_WRITEBACK_TERMINATE", macro |-> "_IO",
        nr |-> 155, arg |-> ""],
       [name |-> "MSMFB_MDP_PP", macro |-> "_IOWR",
        nr |-> 156, arg |-> "struct msmfb_mdp_pp"],
       [name |-> "MSMFB_OVERLAY_VSYNC_CTRL", macro |-> "_IOW",
        nr |-> 160, arg |-> "unsigned int"],
       [name |-> "MSMFB_VSYNC_CTRL", macro |-> "_IOW",
        nr |-> 161, arg |-> "unsigned int"],
       [name |-> "MSMFB_BUFFER_SYNC", macro |-> "_IOW",
        nr |-> 162, arg |-> "struct mdp_buf_sync"],
       [name |-> "MSMFB_OVERLAY_COMMIT", macro |-> "_IO",
        nr |-> 163, arg |-> ""],
       [name |-> "MSMFB_DISPLAY_COMMIT", macro |-> "_IOW",
        nr |-> 164, arg |-> "struct mdp_display_commit"],
       [name |-> "MSMFB_METADATA_SET", macro |-> "_IOW",
        nr |-> 165, arg |-> "struct msmfb_metadata"],
       [name |-> "MSMFB_METADATA_GET", macro |-> "_IOW",
        nr |-> 166, arg |-> "struct msmfb_metadata"],
       [name |-> "MSMFB_WRITEBACK_SET_MIRRORING_HINT", macro |-> "_IOW",
        nr |-> 167, arg |-> "unsigned int"],
       [name |-> "MSMFB_ASYNC_BLIT", macro |-> "_IOW",
        nr |-> 168, arg |-> "unsigned int"] >>

\* Mutant: the register commands numbered from 1, as the first commands are.
MsmfbRegDefines_NumberedFromOne ==
    << [name |-> "MSMFB_REG_READ", macro |-> "_IOWR", nr |-> 1,
        arg |-> "struct msmfb_reg_access"],
       [name |-> "MSMFB_REG_WRITE", macro |-> "_IOW", nr |-> 2,
        arg |-> "struct msmfb_reg_access"] >>

\* The commands that read and write a register.
MsmfbRegDefines ==
    << [name |-> "MSMFB_REG_READ", macro |-> "_IOWR",
        nr |-> 64, arg |-> "struct msmfb_reg_access"],
       [name |-> "MSMFB_REG_WRITE", macro |-> "_IOW",
        nr |-> 65, arg |-> "struct msmfb_reg_access"] >>

MsmfbDefines == MsmfbDisplayDefines \o MsmfbRegDefines
MsmfbNames == {MsmfbDefines[i].name : i \in DOMAIN MsmfbDefines}
MsmfbDefine(name) ==
    MsmfbDefines[CHOOSE i \in DOMAIN MsmfbDefines : MsmfbDefines[i].name = name]

\* The preprocessor replaces a name until a command is left: the direction
\* of the transfer, the magic, the number and the type of the argument.
RECURSIVE MsmfbExpand(_)
MsmfbExpand(name) ==
    LET d == MsmfbDefine(name)
    IN  IF d.macro = "alias" THEN MsmfbExpand(d.of)
        ELSE [dir |-> d.macro, type |-> MSMFB_IOCTL_MAGIC, nr |-> d.nr,
              arg |-> d.arg]

\* Two names of the header are expanded, as a driver that switches on the
\* command does with its case labels.
InitMsmfb ==
    /\ InitWith({})
    /\ \E a \in MsmfbNames, b \in MsmfbNames :
          calc = [op |-> "msmfb", step |-> "names", a |-> a, b |-> b,
                  cmd_a |-> [dir |-> "", type |-> 0, nr |-> 0, arg |-> ""],
                  cmd_b |-> [dir |-> "", type |-> 0, nr |-> 0, arg |-> ""]]

MsmfbPreprocess ==
    /\ calc.op = "msmfb" /\ calc.step = "names"
    /\ calc' = [calc EXCEPT !.step = "expanded",
                            !.cmd_a = MsmfbExpand(calc.a),
                            !.cmd_b = MsmfbExpand(calc.b)]
    /\ UNCHANGED callVars

NextMsmfb == MsmfbPreprocess

SpecMsmfb == InitMsmfb /\ [][NextMsmfb]_vars

(***************************************************************************)
(* libc/kernel/uapi/linux/openvswitch.h: the enums of the netlink          *)
(* families.  No enumerator has an initializer, so the first is 0 and each *)
(* next one is the one before plus 1; an enum that ends in a __*_MAX       *)
(* enumerator is followed by #define *_MAX (__*_MAX - 1).                  *)
(***************************************************************************)
\* The enums in the order of the header: the tag, the *_MAX macro defined
\* after the enum ("" when there is none) and the enumerators.
OvsEnums ==
    << [enum |-> "ovs_datapath_cmd", max |-> "",
        names |->
          << "OVS_DP_CMD_UNSPEC", "OVS_DP_CMD_NEW", "OVS_DP_CMD_DEL",
             "OVS_DP_CMD_GET", "OVS_DP_CMD_SET" >>],
       [enum |-> "ovs_datapath_attr", max |-> "OVS_DP_ATTR_MAX",
        names |->
          << "OVS_DP_ATTR_UNSPEC", "OVS_DP_ATTR_NAME",
             "OVS_DP_ATTR_UPCALL_PID", "OVS_DP_ATTR_STATS",
             "OVS_DP_ATTR_MEGAFLOW_STATS", "OVS_DP_ATTR_USER_FEATURES",
             "__OVS_DP_ATTR_MAX" >>],
       [enum |-> "ovs_packet_cmd", max |-> "",
        names |->
          << "OVS_PACKET_CMD_UNSPEC", "OVS_PACKET_CMD_MISS",
             "OVS_PACKET_CMD_ACTION", "OVS_PACKET_CMD_EXECUTE" >>],
       [enum |-> "ovs_packet_attr", max |-> "OVS_PACKET_ATTR_MAX",
        names |->
          << "OVS_PACKET_ATTR_UNSPEC", "OVS_PACKET_ATTR_PACKET",
             "OVS_PACKET_ATTR_KEY", "OVS_PACKET_ATTR_ACTIONS",
             "OVS_PACKET_ATTR_USERDATA", "__OVS_PACKET_ATTR_MAX" >>],
       [enum |-> "ovs_vport_cmd", max |-> "",
        names |->
          << "OVS_VPORT_CMD_UNSPEC", "OVS_VPORT_CMD_NEW",
             "OVS_VPORT_CMD_DEL", "OVS_VPORT_CMD_GET", "OVS_VPORT_CMD_SET" >>],
       [enum |-> "ovs_vport_type", max |-> "OVS_VPORT_TYPE_MAX",
        names |->
          << "OVS_VPORT_TYPE_UNSPEC", "OVS_VPORT_TYPE_NETDEV",
             "OVS_VPORT_TYPE_INTERNAL", "OVS_VPORT_TYPE_GRE",
             "OVS_VPORT_TYPE_VXLAN", "OVS_VPORT_TYPE_GENEVE",
             "__OVS_VPORT_TYPE_MAX" >>],
       [enum |-> "ovs_vport_attr", max |-> "OVS_VPORT_ATTR_MAX",
        names |->
          << "OVS_VPORT_ATTR_UNSPEC", "OVS_VPORT_ATTR_PORT_NO",
             "OVS_VPORT_ATTR_TYPE", "OVS_VPORT_ATTR_NAME",
             "OVS_VPORT_ATTR_OPTIONS", "OVS_VPORT_ATTR_UPCALL_PID",
             "OVS_VPORT_ATTR_STATS", "__OVS_VPORT_ATTR_MAX" >>],
       [enum |-> "", max |-> "OVS_TUNNEL_ATTR_MAX",
        names |->
          << "OVS_TUNNEL_ATTR_UNSPEC", "OVS_TUNNEL_ATTR_DST_PORT",
             "__OVS_TUNNEL_ATTR_MAX" >>],
       [enum |-> "ovs_flow_cmd", max |-> "",
        names |->
          << "OVS_FLOW_CMD_UNSPEC", "OVS_FLOW_CMD_NEW", "OVS_FLOW_CMD_DEL",
             "OVS_FLOW_CMD_GET", "OVS_FLOW_CMD_SET" >>],
       [enum |-> "ovs_key_attr", max |-> "OVS_KEY_ATTR_MAX",
        names |->
          << "OVS_KEY_ATTR_UNSPEC", "OVS_KEY_ATTR_ENCAP",
             "OVS_KEY_ATTR_PRIORITY", "OVS_KEY_ATTR_IN_PORT",
             "OVS_KEY_ATTR_ETHERNET", "OVS_KEY_ATTR_VLAN",
             "OVS_KEY_ATTR_ETHERTYPE", "OVS_KEY_ATTR_IPV4",
             "OVS_KEY_ATTR_IPV6", "OVS_KEY_ATTR_TCP", "OVS_KEY_ATTR_UDP",
             "OVS_KEY_ATTR_ICMP", "OVS_KEY_ATTR_ICMPV6",
             "OVS_KEY_ATTR_ARP", "OVS_KEY_ATTR_ND",
             "OVS_KEY_ATTR_SKB_MARK", "OVS_KEY_ATTR_TUNNEL",
             "OVS_KEY_ATTR_SCTP", "OVS_KEY_ATTR_TCP_FLAGS",
             "OVS_KEY_ATTR_DP_HASH", "OVS_KEY_ATTR_RECIRC_ID",
             "__OVS_KEY_ATTR_MAX" >>],
       [enum |-> "ovs_tunnel_key_attr", max |-> "OVS_TUNNEL_KEY_ATTR_MAX",
        names |->
          << "OVS_TUNNEL_KEY_ATTR_ID", "OVS_TUNNEL_KEY_ATTR_IPV4_SRC",
             "OVS_TUNNEL_KEY_ATTR_IPV4_DST", "OVS_TUNNEL_KEY_ATTR_TOS",
             "OVS_TUNNEL_KEY_ATTR_TTL",
             "OVS_TUNNEL_KEY_ATTR_DONT_FRAGMENT",
             "OVS_TUNNEL_KEY_ATTR_CSUM", "OVS_TUNNEL_KEY_ATTR_OAM",
             "OVS_TUNNEL_KEY_ATTR_GENEVE_OPTS",
             "__OVS_TUNNEL_KEY_ATTR_MAX" >>],
       [enum |-> "ovs_frag_type", max |-> "OVS_FRAG_TYPE_MAX",
        names |->
          << "OVS_FRAG_TYPE_NONE", "OVS_FRAG_TYPE_FIRST",
             "OVS_FRAG_TYPE_LATER", "__OVS_FRAG_TYPE_MAX" >>],
       [enum |-> "ovs_flow_attr", max |-> "OVS_FLOW_ATTR_MAX",
        names |->
          << "OVS_FLOW_ATTR_UNSPEC", "OVS_FLOW_ATTR_KEY",
             "OVS_FLOW_ATTR_ACTIONS", "OVS_FLOW_ATTR_STATS",
             "OVS_FLOW_ATTR_TCP_FLAGS", "OVS_FLOW_ATTR_USED",
             "OVS_FLOW_ATTR_CLEAR", "OVS_FLOW_ATTR_MASK",
             "__OVS_FLOW_ATTR_MAX" >>],
       [enum |-> "ovs_sample_attr", max |-> "OVS_SAMPLE_ATTR_MAX",
        names |->
          << "OVS_SAMPLE_ATTR_UNSPEC", "OVS_SAMPLE_ATTR_PROBABILITY",
             "OVS_SAMPLE_ATTR_ACTIONS", "__OVS_SAMPLE_ATTR_MAX" >>],
       [enum |-> "ovs_userspace_attr", max |-> "OVS_USERSPACE_ATTR_MAX",
        names |->
          << "OVS_USERSPACE_ATTR_UNSPEC", "OVS_USERSPACE_ATTR_PID",
             "OVS_USERSPACE_ATTR_USERDATA", "__OVS_USERSPACE_ATTR_MAX" >>],
       [enum |-> "ovs_hash_alg", max |-> "",
        names |->
          << "OVS_HASH_ALG_L4" >>],
       [enum |-> "ovs_action_attr", max |-> "OVS_ACTION_ATTR_MAX",
        names |->
          << "OVS_ACTION_ATTR_UNSPEC", "OVS_ACTION_ATTR_OUTPUT",
             "OVS_ACTION_ATTR_USERSPACE", "OVS_ACTION_ATTR_SET",
             "OVS_ACTION_ATTR_PUSH_VLAN", "OVS_ACTION_ATTR_POP_VLAN",
             "OVS_ACTION_ATTR_SAMPLE", "OVS_ACTION_ATTR_RECIRC",
             "OVS_ACTION_ATTR_HASH", "__OVS_ACTION_ATTR_MAX" >>] >>

\* The value of an enumerator without initializer that follows one of value prev.
OvsNextEnumerator(prev) == prev + 1

\* Mutant: the macro is the __*_MAX enumerator itself.
OvsMax_NoMinusOne(last) == last

\* #define *_MAX (__*_MAX - 1)
OvsMax(last) == last - 1

\* The compiler goes through one enum: it gives each enumerator its value,
\* then the macro after the enum is evaluated.
InitOvs ==
    /\ InitWith({})
    /\ \E e \in DOMAIN OvsEnums :
          calc = [op |-> "ovs", step |-> "enum", enum |-> OvsEnums[e],
                  values |-> << >>, max |-> Unset]

OvsEnumerator ==
    /\ calc.op = "ovs" /\ calc.step = "enum"
    /\ Len(calc.values) < Len(calc.enum.names)
    /\ calc' = [calc EXCEPT
                  !.values = Append(calc.values,
                                    IF calc.values = << >> THEN 0
                                    ELSE OvsNextEnumerator(
                                            calc.values[Len(calc.values)]))]
    /\ UNCHANGED callVars

OvsDefineMax ==
    /\ calc.op = "ovs" /\ calc.step = "enum"
    /\ Len(calc.values) = Len(calc.enum.names)
    /\ calc.enum.max # ""
    /\ calc' = [calc EXCEPT !.step = "defined",
                            !.max = OvsMax(calc.values[Len(calc.values)])]
    /\ UNCHANGED callVars

NextOvs == OvsEnumerator \/ OvsDefineMax

SpecOvs == InitOvs /\ [][NextOvs]_vars

(***************************************************************************)
(* The path of lines 64-66 for any kernel id a pid_t can hold: the buffer  *)
(* is filled by snprintf and the kernel looks the path up.                 *)
(***************************************************************************)
\* t->kernel_id: the ids at which the decimal form gets longer, their
\* multiples, the largest pid_t, and the negative ids, which the cast to
\* unsigned int turns into the values from 2^31 up to 2^32 - 1.
PathKernelIds ==
    {d * (10 ^ e) - s : d \in 1..9, e \in 0..8, s \in 0..1}
    \cup {10 ^ 9, 2 * (10 ^ 9), 2147483647}
    \cup {-1, -2, -294967296, -294967297, -2147483647, -2147483647 - 1}

\* The kernel takes the path up to its terminator apart: the directory of a
\* task under /proc/self/task and the entry comm in it.
ProcTaskDir ==
    << "/", "p", "r", "o", "c", "/", "s", "e", "l", "f", "/", "t", "a", "s", "k", "/" >>
ProcCommEntry == << "/", "c", "o", "m", "m" >>
PathLookup(buf) ==
    LET path == Bytes(buf, strlen(buf))
        dlen == Len(path) - Len(ProcTaskDir) - Len(ProcCommEntry)
        dir == SubSeq(path, Len(ProcTaskDir) + 1, Len(ProcTaskDir) + dlen)
    IN  IF /\ dlen >= 1
           /\ SubSeq(path, 1, Len(ProcTaskDir)) = ProcTaskDir
           /\ SubSeq(path, Len(path) - Len(ProcCommEntry) + 1, Len(path))
                 = ProcCommEntry
           /\ \A i \in 1..dlen : dir[i] \in {Digit(d) : d \in 0..9}
        THEN [found |-> TRUE, dir |-> dir]
        ELSE [found |-> FALSE, dir |-> << >>]

InitPath ==
    /\ InitWith({})
    /\ \E k \in PathKernelIds :
          calc = [op |-> "path", step |-> "thread", kernel_id |-> k,
                  comm_name |-> << >>,
                  entry |-> [found |-> FALSE, dir |-> << >>]]

\* Lines 64-65.
PathFormat ==
    /\ calc.op = "path" /\ calc.step = "thread"
    /\ calc' = [calc EXCEPT
                  !.step = "formatted",
                  !.comm_name = snprintf(SizeofCommName, TASK_COMM_FMT,
                                         ToUnsignedInt(calc.kernel_id))]
    /\ UNCHANGED callVars

\* Line 66.
PathOpen ==
    /\ calc.op = "path" /\ calc.step = "formatted"
    /\ calc' = [calc EXCEPT !.step = "opened",
                            !.entry = PathLookup(calc.comm_name)]
    /\ UNCHANGED callVars

NextPath == PathFormat \/ PathOpen

SpecPath == InitPath /\ [][NextPath]_vars

(***************************************************************************)
(* Observations on a call.                                                 *)
(***************************************************************************)
Started(c) == pc[c] # "idle"
Done(c) == pc[c] = "done"

\* The arguments passed validation: a handle, and a name of fewer than 16 bytes.
ArgsNull(c) == thread[c] = 0 \/ thread_name[c] = NULL
ArgsValid(c) == ~ArgsNull(c) /\ strlen(thread_name[c]) < 16
SelfCall(c) == ArgsValid(c) /\ thread[c] = c
OtherCall(c) == ArgsValid(c) /\ thread[c] # c

\* The positions in the trace of c of the system calls of one kind.
At(c, kind) == {i \in DOMAIN trace[c] : trace[c][i].call = kind}
Interrupted(ev) == ev.call = "write" /\ ev.res = -1 /\ ev.err = EINTR
Failed(ev) == ev.res = -1

\* The last write of c (there is one).
LastWrite(c) == trace[c][CHOOSE i \in At(c, "write") : \A j \in At(c, "write") : j <= i]

(***************************************************************************)
(* C1: a call with a null handle or a null name returns EINVAL, whatever   *)
(* the other argument is (a name of 16 bytes or more included), issues no  *)
(* system call and reads neither the name nor the handle's kernel id.      *)
(***************************************************************************)
C1_NullArgsReturnEINVAL ==
    \A c \in Threads :
       (Started(c) /\ ArgsNull(c)) =>
          /\ pc[c] \in {"check_args", "done"}
          /\ trace[c] = << >>
          /\ reads[c] = {}
          /\ Done(c) => ret[c] = EINVAL

\* A null handle with a name of more than 16 bytes has returned EINVAL.
C1_Witness ==
    \E c \in Threads :
       /\ Done(c) /\ thread[c] = 0 /\ thread_name[c] # NULL
       /\ strlen(thread_name[c]) > 16
       /\ ret[c] = EINVAL

(***************************************************************************)
(* C2: with a handle and a name of L bytes, the call is rejected with      *)
(* ERANGE exactly when L >= 16, before the branch on the target (so for    *)
(* the calling thread as for another one) and without any system call;    *)
(* every L in 0..15 goes on to the rename step.                            *)
(***************************************************************************)
C2_ERangeIffSixteenOrMore ==
    \A c \in Threads :
       (Started(c) /\ ~ArgsNull(c) /\ pc[c] \notin {"check_args", "check_len"}) =>
          LET L == strlen(thread_name[c])
              rejected == Done(c) /\ ret[c] = ERANGE /\ trace[c] = << >>
          IN  /\ thread_name_len[c] = L
              /\ (L >= 16) => rejected
              /\ (L < 16) => /\ ~rejected
                             /\ pc[c] = "rename" \/ trace[c] # << >>

\* The calling thread's own handle with a name of exactly 16 bytes: ERANGE.
C2_Witness ==
    \E c \in Threads :
       /\ Done(c) /\ thread[c] = c /\ thread_name[c] # NULL
       /\ strlen(thread_name[c]) = 16
       /\ ret[c] = ERANGE /\ trace[c] = << >>

(***************************************************************************)
(* C3: renaming the calling thread issues exactly one prctl with the name  *)
(* and no open, write or close; the call returns 0 when prctl returned 0   *)
(* and the errno prctl set otherwise.                                      *)
(***************************************************************************)
C3_SelfRenameIsOnePrctl ==
    \A c \in Threads :
       SelfCall(c) =>
          /\ \A i \in DOMAIN trace[c] : trace[c][i].call = "prctl"
          /\ Len(trace[c]) <= 1
          /\ Done(c) =>
                /\ Len(trace[c]) = 1
                /\ trace[c][1].buf = thread_name[c]
                /\ ret[c] = IF trace[c][1].res = 0 THEN 0 ELSE trace[c][1].err

\* A self rename whose prctl failed has returned the errno of prctl.
C3_Witness ==
    \E c \in Threads :
       /\ Done(c) /\ SelfCall(c)
       /\ Len(trace[c]) = 1 /\ trace[c][1].res = -1
       /\ ret[c] = EFAULT

(***************************************************************************)
(* C4: renaming another thread opens /proc/self/task/<tid>/comm, <tid>     *)
(* the unsigned decimal kernel id of the handle, writes strlen(name) bytes *)
(* of the name (no terminator) to it, never calls prctl, and returns 0     *)
(* when the write reports that all strlen(name) bytes were written.        *)
(***************************************************************************)
C4_OtherRenameWritesCommFile ==
    \A c \in Threads :
       (OtherCall(c) /\ pc[c] \notin {"idle", "check_args", "check_len", "rename"}) =>
          /\ At(c, "prctl") = {}
          /\ At(c, "open") = {1}
          /\ trace[c][1].path = ProcCommPath(kernel_id(thread[c]))
          /\ \A i \in At(c, "write") :
                /\ trace[c][i].fd = trace[c][1].res
                /\ trace[c][i].buf = thread_name[c]
                /\ trace[c][i].len = strlen(thread_name[c])
                /\ trace[c][i].res <= strlen(thread_name[c])
          /\ (Done(c) /\ At(c, "write") # {}
                /\ LastWrite(c).res = strlen(thread_name[c])) =>
                /\ ret[c] = 0
                /\ comm[kernel_id(thread[c])] =
                      Bytes(thread_name[c], strlen(thread_name[c]))

\* Another thread was given a name of 15 bytes and the call returned 0.
C4_Witness ==
    \E c \in Threads :
       /\ Done(c) /\ OtherCall(c) /\ ret[c] = 0
       /\ strlen(thread_name[c]) = 15
       /\ Len(comm[kernel_id(thread[c])]) = 15
       /\ comm[kernel_id(thread[c])][15] = thread_name[c][15]

(***************************************************************************)
(* C5: a write interrupted by a signal (-1, EINTR) is issued again with    *)
(* the same descriptor, buffer and length; the descriptor is closed only   *)
(* after the last write; EINTR of the write is never what the call         *)
(* returns.                                                                *)
(***************************************************************************)
C5_InterruptedWriteReissued ==
    \A c \in Threads :
       LET t == trace[c] IN
       /\ \A i \in At(c, "write") :
             Interrupted(t[i]) =>
                IF i < Len(t)
                THEN /\ t[i + 1].call = "write"
                     /\ t[i + 1].fd = t[i].fd
                     /\ t[i + 1].buf = t[i].buf
                     /\ t[i + 1].len = t[i].len
                ELSE pc[c] = "write"
       /\ \A i \in At(c, "close") :
             /\ i = Len(t)
             /\ \A j \in At(c, "write") : j < i
             /\ i > 1 /\ t[i - 1].call = "write" /\ ~Interrupted(t[i - 1])
             /\ t[i].fd = t[i - 1].fd
       /\ (Done(c) /\ At(c, "write") # {}) =>
             /\ ~Interrupted(LastWrite(c))
             /\ ret[c] = EINTR =>
                   /\ t[Len(t)].call = "close"
                   /\ t[Len(t)].res = -1 /\ t[Len(t)].err = EINTR

\* Two interrupted writes, then a third that wrote the whole name: 0 returned.
C5_Witness ==
    \E c \in Threads :
       /\ Done(c) /\ OtherCall(c) /\ Len(trace[c]) = 5
       /\ Interrupted(trace[c][2]) /\ Interrupted(trace[c][3])
       /\ trace[c][4].call = "write" /\ trace[c][4].res = strlen(thread_name[c])
       /\ trace[c][5].call = "close"
       /\ ret[c] = 0

(***************************************************************************)
(* C6: when the last write returns a count n >= 0 other than strlen(name)  *)
(* (n = 0 for a name that is not empty included), the call returns EIO.    *)
(***************************************************************************)
C6_ShortWriteReturnsEIO ==
    \A c \in Threads :
       (Done(c) /\ OtherCall(c) /\ At(c, "write") # {}
          /\ LastWrite(c).res >= 0
          /\ LastWrite(c).res # strlen(thread_name[c])) => ret[c] = EIO

\* A write of 0 bytes of a name that is not empty, and a close that failed: EIO.
C6_Witness ==
    \E c \in Threads :
       /\ Done(c) /\ OtherCall(c) /\ At(c, "write") # {}
       /\ strlen(thread_name[c]) > 0
       /\ LastWrite(c).res = 0
       /\ Failed(trace[c][Len(trace[c])])
       /\ ret[c] = EIO

(***************************************************************************)
(* C7: when the open of the comm file fails, the call returns the errno    *)
(* that open set and issues no write and no close.                         *)
(***************************************************************************)
C7_OpenFailureReturnsItsErrno ==
    \A c \in Threads :
       \A i \in At(c, "open") :
          Failed(trace[c][i]) =>
             /\ Len(trace[c]) = i
             /\ At(c, "write") = {} /\ At(c, "close") = {}
             /\ Done(c)
             /\ ret[c] = trace[c][i].err

\* An open that failed with EACCES, returned to the caller.
C7_Witness ==
    \E c \in Threads :
       /\ Done(c) /\ OtherCall(c) /\ Len(trace[c]) = 1
       /\ trace[c][1].call = "open" /\ trace[c][1].res = -1
       /\ trace[c][1].err = EACCES /\ ret[c] = EACCES

(***************************************************************************)
(* C8: when the write fails with an error other than EINTR, the call       *)
(* returns the errno of that write, whatever the close that follows does   *)
(* (a close that fails and sets errno included).                           *)
(***************************************************************************)
C8_WriteErrnoReturned ==
    \A c \in Threads :
       (Done(c) /\ OtherCall(c) /\ At(c, "write") # {} /\ LastWrite(c).res = -1)
          => ret[c] = LastWrite(c).err

(***************************************************************************)
(* C9: the call returns 0 exactly on its two successes (prctl returned 0   *)
(* on the self path, the write returned strlen(name) on the other path);   *)
(* every failure returns a value that is not 0, one of EINVAL, ERANGE, EIO *)
(* or the errno of a system call of the call that failed.                  *)
(***************************************************************************)
Success(c) ==
    \/ SelfCall(c) /\ \E i \in At(c, "prctl") : trace[c][i].res = 0
    \/ OtherCall(c) /\ At(c, "write") # {}
          /\ LastWrite(c).res = strlen(thread_name[c])

\* The errnos of the system calls of c that failed and were not made again.
FailureErrnos(c) ==
    {trace[c][i].err : i \in {j \in DOMAIN trace[c] :
                                Failed(trace[c][j]) /\ ~Interrupted(trace[c][j])}}

C10_OnlyInterruptedWriteRetried ==
    \A c \in Threads :
       LET t == trace[c] IN
       /\ Cardinality(At(c, "prctl")) <= 1
       /\ Cardinality(At(c, "open")) <= 1
       /\ Cardinality(At(c, "close")) <= 1
       /\ \A i \in DOMAIN t :
             /\ (t[i].call \in {"open", "prctl"} /\ Failed(t[i])) => i = Len(t)
             /\ (t[i].call = "write" /\ i > 1) =>
                   t[i - 1].call = "open" \/ Interrupted(t[i - 1])
             /\ (t[i].call = "write" /\ ~Interrupted(t[i])) =>
                   \A j \in DOMAIN t : j > i => t[j].call = "close"

\* One interrupted write, then a write that failed with EIO, then the close.
C10_Witness ==
    \E c \in Threads :
       /\ Done(c) /\ Len(trace[c]) = 4
       /\ Interrupted(trace[c][2])
       /\ trace[c][3].call = "write" /\ trace[c][3].res = -1 /\ trace[c][3].err = EIO
       /\ trace[c][4].call = "close"
       /\ comm[kernel_id(thread[c])] = OldName(kernel_id(thread[c]))

(***************************************************************************)
(* C11 as stated: an interrupted write is made again a single time, so a   *)
(* call issues at most two writes.                                         *)
(***************************************************************************)
C11_AtMostTwoWrites ==
    \A c \in Threads : Cardinality(At(c, "write")) <= 2

(***************************************************************************)
(* C11 as amended: the write is made again after every interruption, with  *)
(* no limit on how often: a call whose write was interrupted k times has   *)
(* issued k writes while it is still writing and k + 1 once it has gone    *)
(* past the write.                                                         *)
(***************************************************************************)
C11_OneWritePerInterruptionPlusOne ==
    \A c \in Threads :
       LET interrupted == {i \in At(c, "write") : Interrupted(trace[c][i])} IN
       /\ Cardinality(interrupted) = eintr[c]
       /\ Cardinality(At(c, "write")) =
             IF pc[c] \in {"close", "result", "done"} /\ fd[c] # Unset /\ fd[c] # -1
             THEN eintr[c] + 1
             ELSE eintr[c]

\* A call that was interrupted twice and has issued three writes.
C11_Witness ==
    \E c \in Threads :
       /\ Done(c) /\ eintr[c] = 2
       /\ Cardinality(At(c, "write")) = 3
       /\ Interrupted(trace[c][2]) /\ Interrupted(trace[c][3])
       /\ ~Interrupted(trace[c][4])

(***************************************************************************)
(* C12: two threads rename the same target concurrently, with different    *)
(* valid names, and every system call succeeds: both calls return 0 and    *)
(* the target's comm name is in the end one of the two names, whole.       *)
(***************************************************************************)
\* Every system call of c succeeded, the writes with all their bytes.
AllSucceeded(c) ==
    \A i \in DOMAIN trace[c] :
       /\ trace[c][i].res # -1
       /\ trace[c][i].call = "write" => trace[c][i].res = trace[c][i].len

NameBytes(c) == Bytes(thread_name[c], strlen(thread_name[c]))

C12_ConcurrentRenamesLeaveOneName ==
    \A c \in Threads, d \in Threads :
       (/\ c # d /\ Done(c) /\ Done(d)
        /\ ArgsValid(c) /\ ArgsValid(d)
        /\ thread[c] = thread[d] /\ thread_name[c] # thread_name[d]
        /\ AllSucceeded(c) /\ AllSucceeded(d)) =>
          /\ ret[c] = 0 /\ ret[d] = 0
          /\ comm[kernel_id(thread[c])] \in {NameBytes(c), NameBytes(d)}

\* Thread 1 renamed itself with prctl while thread 2 renamed it through its comm
\* file; both returned 0 and the name thread 1 asked for is the one that stayed.
C12_Witness ==
    /\ Done(1) /\ Done(2) /\ thread[1] = 1 /\ thread[2] = 1
    /\ ArgsValid(1) /\ ArgsValid(2) /\ thread_name[1] # thread_name[2]
    /\ AllSucceeded(1) /\ AllSucceeded(2)
    /\ At(1, "prctl") # {} /\ At(2, "write") # {}
    /\ ret[1] = 0 /\ ret[2] = 0
    /\ comm[kernel_id(1)] = NameBytes(1)

(***************************************************************************)
(* C13: concurrent calls share no state of the function: whatever the      *)
(* interleaving, the value a call returns and the system calls it issued   *)
(* are those of the function run alone on the same arguments with the same *)
(* results of its system calls, and its locals hold its own values.        *)
(***************************************************************************)
\* The run of the function alone, read off the source: given the arguments of c
\* and the results its system calls had, the calls it issues and what it returns.
AloneRun(c) ==
    LET t == trace[c]
        h == thread[c]
        nm == thread_name[c]
        last == Len(t)
    IN
    IF h = 0 \/ nm = NULL THEN t = << >> /\ ret[c] = EINVAL
    ELSE IF strlen(nm) >= 16 THEN t = << >> /\ ret[c] = ERANGE
    ELSE IF h = c
    THEN /\ last = 1
         /\ t[1].call = "prctl" /\ t[1].buf = nm
         /\ ret[c] = IF t[1].res # 0 THEN t[1].err ELSE 0
    ELSE /\ last >= 1
         /\ t[1].call = "open" /\ t[1].path = ProcCommPath(kernel_id(h))
         /\ comm_name[c] = t[1].path
         /\ fd[c] = t[1].res
         /\ IF t[1].res = -1
            THEN last = 1 /\ ret[c] = t[1].err
            ELSE /\ last >= 3
                 /\ \A i \in 2..(last - 1) :
                       /\ t[i].call = "write" /\ t[i].fd = t[1].res
                       /\ t[i].buf = nm /\ t[i].len = strlen(nm)
                       /\ Interrupted(t[i]) <=> i < last - 1
                 /\ t[last].call = "close" /\ t[last].fd = t[1].res
                 /\ n[c] = t[last - 1].res
                 /\ thread_name_len[c] = strlen(nm)
                 /\ ret[c] = IF t[last - 1].res < 0
                             THEN IF t[last].res = -1 THEN t[last].err
                                  ELSE t[last - 1].err
                             ELSE IF t[last - 1].res # strlen(nm) THEN EIO
                             ELSE 0

C13_CallsDoNotInterfere ==
    \A c \in Threads : Done(c) => AloneRun(c)

\* Both threads renamed the last thread at the same time, with descriptors 3 and
\* 4 open together; thread 1 wrote its name, the write of thread 2 failed.
C13_Witness ==
    /\ Done(1) /\ Done(2)
    /\ thread[1] = NumThreads /\ thread[2] = NumThreads
    /\ fd[1] = 4 /\ fd[2] = 3
    /\ trace[1][2].call = "write" /\ trace[2][1].call = "open"
    /\ n[1] = 1 /\ n[2] = -1
    /\ ret[1] = 0 /\ ret[2] = EACCES

(***************************************************************************)
(* C15: every call returns.  The write is the only step that can repeat,   *)
(* and it repeats only while it is interrupted, which by assumption does   *)
(* not go on for ever.                                                     *)
(***************************************************************************)
C15_EveryCallReturns ==
    \A c \in Threads : Started(c) ~> Done(c)

\* A call to rename another thread has returned after as many interruptions of
\* its write as can happen.
C15_Witness ==
    \E c \in Threads :
       /\ Done(c) /\ OtherCall(c)
       /\ eintr[c] = MaxEintr
       /\ Len(trace[c]) = MaxEintr + 3

Opened(c) == {trace[c][i].res : i \in {j \in At(c, "open") : ~Failed(trace[c][j])}}

C17_DescriptorClosedExactlyOnce ==
    \A c \in Threads :
       /\ Cardinality(At(c, "close")) <= 1
       /\ \A i \in At(c, "close") : trace[c][i].fd \in Opened(c)
       /\ Opened(c) = {} => At(c, "close") = {}
       /\ Done(c) =>
             /\ Opened(c) # {} => Cardinality(At(c, "close")) = 1
             /\ DOMAIN fdtable = {0, 1, 2}

\* Descriptor 3 was opened, the write was interrupted, then failed, and the close
\* failed too: the call has returned and 3 is no longer open.
C17_Witness ==
    \E c \in Threads :
       /\ Done(c) /\ Opened(c) = {3} /\ eintr[c] > 0
       /\ LastWrite(c).res = -1
       /\ At(c, "close") = {Len(trace[c])}
       /\ trace[c][Len(trace[c])].fd = 3 /\ Failed(trace[c][Len(trace[c])])
       /\ 3 \notin DOMAIN fdtable

(***************************************************************************)
(* C18: an empty name with a handle passes validation: on the self path    *)
(* prctl is called with it, on the other path a write of 0 bytes is issued *)
(* and the call returns 0 when that write returns 0.                       *)
(***************************************************************************)
EmptyName(c) == thread[c] # 0 /\ thread_name[c] = << NUL >>

C18_EmptyNameIsRenamedTo ==
    \A c \in Threads :
       (EmptyName(c) /\ pc[c] \notin {"idle", "check_args", "check_len"}) =>
          /\ pc[c] = "rename" \/ trace[c] # << >>
          /\ (thread[c] = c /\ trace[c] # << >>) =>
                trace[c][1].call = "prctl" /\ trace[c][1].buf = << NUL >>
          /\ thread[c] # c =>
                /\ \A i \in At(c, "write") : trace[c][i].len = 0
                /\ (Done(c) /\ ~Failed(trace[c][1])) => At(c, "write") # {}
                /\ (Done(c) /\ At(c, "write") # {} /\ LastWrite(c).res = 0) =>
                      ret[c] = 0

\* Another thread was given the empty name: a write of 0 bytes returned 0, the
\* call returned 0 and the thread's comm name is empty.
C18_Witness ==
    \E c \in Threads :
       /\ Done(c) /\ EmptyName(c) /\ thread[c] # c
       /\ At(c, "write") # {} /\ LastWrite(c).len = 0 /\ LastWrite(c).res = 0
       /\ ret[c] = 0
       /\ comm[kernel_id(thread[c])] = << >>

(***************************************************************************)
(* C19: a call changes the comm name of at most one task, the one its      *)
(* handle designates (the caller on the self path, the task whose kernel   *)
(* id the handle holds on the other path); every other task keeps its      *)
(* name, and when the call fails in validation or at the open every task   *)
(* keeps its name.  (One call: checked where one thread calls.)            *)
(***************************************************************************)
C19_OnlyTheDesignatedTaskRenamed ==
    \A c \in callers :
       /\ \A t \in Tids :
             (thread[c] = 0 \/ t # kernel_id(thread[c])) => comm[t] = OldName(t)
       /\ (Done(c) /\ (trace[c] = << >> \/ Failed(trace[c][1]))) =>
             \A t \in Tids : comm[t] = OldName(t)

\* Thread 1 renamed thread 2: the name of thread 2 is the new one, those of
\* threads 1 and 3 are the old ones.
C19_Witness ==
    /\ Done(1) /\ thread[1] = 2 /\ ret[1] = 0
    /\ strlen(thread_name[1]) = 3
    /\ comm[kernel_id(2)] = Bytes(thread_name[1], 3)
    /\ comm[kernel_id(2)] # OldName(kernel_id(2))
    /\ comm[kernel_id(1)] = OldName(kernel_id(1))
    /\ comm[kernel_id(3)] = OldName(kernel_id(3))

(***************************************************************************)
(* C20: the ioprio encoding round-trips: for every class of the enum and   *)
(* every data in 0..8191, the class and the data of                        *)
(* IOPRIO_PRIO_VALUE(class, data) are class and data, the value fits in    *)
(* IOPRIO_BITS = 16 bits, and it is valid exactly when the class is not    *)
(* IOPRIO_CLASS_NONE.                                                      *)
(***************************************************************************)
C20_IoprioRoundTrip ==
    (calc.op = "ioprio" /\ calc.step = "decoded") =>
       /\ calc.class \in 0..3 /\ calc.data \in 0..8191
       /\ calc.out_class = calc.class
       /\ calc.out_data = calc.data
       /\ calc.value >= 0 /\ calc.value < 2 ^ 16
       /\ calc.valid <=> calc.class # 0

\* Class IOPRIO_CLASS_IDLE with the largest data: the value is 0x7FFF.
C20_Witness ==
    /\ calc.op = "ioprio" /\ calc.step = "decoded"
    /\ calc.class = 3 /\ calc.data = 8191
    /\ calc.value = 32767
    /\ calc.out_class = 3 /\ calc.out_data = 8191 /\ calc.valid

(***************************************************************************)
(* C21: the three masks of the post-processing block word are pairwise     *)
(* disjoint and the argument mask is the MDSS_PP_ARG_NUM = 4 bits from     *)
(* bit MDSS_PP_ARG_SHIFT = 10; for every var in 0..0x3FFF and every arg    *)
(* and x in 0..3, PP_ARG(x, MDSS_PP_ADD_ARG(var, arg)) is non-zero exactly *)
(* when x = arg or PP_ARG(x, var) is non-zero, and the location and the    *)
(* logical block of the result are those of var.                           *)
(***************************************************************************)
C21_AddArgSetsOnlyItsBit ==
    /\ BitAnd(MDSS_PP_LOGICAL_MASK, MDSS_PP_LOCATION_MASK) = 0
    /\ BitAnd(MDSS_PP_LOGICAL_MASK, MDSS_PP_ARG_MASK) = 0
    /\ BitAnd(MDSS_PP_LOCATION_MASK, MDSS_PP_ARG_MASK) = 0
    /\ MDSS_PP_ARG_NUM = 4 /\ MDSS_PP_ARG_SHIFT = 10
    /\ MDSS_PP_ARG_MASK = (2 ^ 10) + (2 ^ 11) + (2 ^ 12) + (2 ^ 13)
    /\ (calc.op = "mdss_pp" /\ calc.step = "read") =>
          /\ calc.var \in 0..16383 /\ calc.arg \in 0..3
          /\ \A x \in 0..3 :
                (calc.pp_arg[x] # 0) <=>
                   (x = calc.arg \/ BitAnd(calc.var, 2 ^ (10 + x)) # 0)
          /\ calc.pp_locat = BitAnd(calc.var, 768)
          /\ calc.pp_block = BitAnd(calc.var, 255)

\* Argument 2 added to the word 0x0B05, which has argument 1: the word
\* becomes 0x1B05, with the location 0x300 and the block 5 kept.
C21_Witness ==
    /\ calc.op = "mdss_pp" /\ calc.step = "read"
    /\ calc.var = 2821 /\ calc.arg = 2
    /\ calc.out = 6917
    /\ calc.pp_arg[2] = 4096 /\ calc.pp_arg[1] = 2048 /\ calc.pp_arg[3] = 0
    /\ calc.pp_locat = 768 /\ calc.pp_block = 5

(***************************************************************************)
(* C22: the command numbers of the MSMFB ioctls under the magic 'm' are    *)
(* pairwise distinct: two different MSMFB_* names expand to commands with  *)
(* the same number only when they are MSMFB_OVERLAY_QUEUE and              *)
(* MSMFB_OVERLAY_PLAY, the first being defined as the second, number 137.  *)
(***************************************************************************)
C22_CommandNumbersDistinct ==
    (calc.op = "msmfb" /\ calc.step = "expanded") =>
       /\ calc.cmd_a.type = 109 /\ calc.cmd_b.type = 109
       /\ (calc.a # calc.b /\ calc.cmd_a.nr = calc.cmd_b.nr) =>
             /\ {calc.a, calc.b} = {"MSMFB_OVERLAY_QUEUE", "MSMFB_OVERLAY_PLAY"}
             /\ calc.cmd_a = calc.cmd_b
             /\ calc.cmd_a.nr = 137

\* The two names of the one command.
C22_Witness ==
    /\ calc.op = "msmfb" /\ calc.step = "expanded"
    /\ calc.a = "MSMFB_OVERLAY_QUEUE" /\ calc.b = "MSMFB_OVERLAY_PLAY"
    /\ calc.cmd_a.nr = 137 /\ calc.cmd_b.nr = 137
    /\ calc.cmd_a.dir = "_IOW" /\ calc.cmd_a.arg = "struct msmfb_overlay_data"

(***************************************************************************)
(* C23: in every Open vSwitch enum with a *_MAX macro the macro equals the *)
(* value of the last enumerator before __*_MAX and the enumerators are the *)
(* consecutive integers from 0; in particular OVS_DP_ATTR_MAX =            *)
(* OVS_DP_ATTR_USER_FEATURES = 5, OVS_PACKET_ATTR_MAX =                    *)
(* OVS_PACKET_ATTR_USERDATA = 4, OVS_VPORT_TYPE_MAX =                      *)
(* OVS_VPORT_TYPE_GENEVE = 5, OVS_VPORT_ATTR_MAX = OVS_VPORT_ATTR_STATS =  *)
(* 6, OVS_KEY_ATTR_MAX = OVS_KEY_ATTR_RECIRC_ID = 20,                      *)
(* OVS_TUNNEL_KEY_ATTR_MAX = OVS_TUNNEL_KEY_ATTR_GENEVE_OPTS = 8,          *)
(* OVS_FLOW_ATTR_MAX = OVS_FLOW_ATTR_MASK = 7 and OVS_ACTION_ATTR_MAX =    *)
(* OVS_ACTION_ATTR_HASH = 8.                                               *)
(***************************************************************************)
C23_Stated ==
    { << "OVS_DP_ATTR_MAX",
         "OVS_DP_ATTR_USER_FEATURES", 5 >>,
      << "OVS_PACKET_ATTR_MAX",
         "OVS_PACKET_ATTR_USERDATA", 4 >>,
      << "OVS_VPORT_TYPE_MAX",
         "OVS_VPORT_TYPE_GENEVE", 5 >>,
      << "OVS_VPORT_ATTR_MAX",
         "OVS_VPORT_ATTR_STATS", 6 >>,
      << "OVS_KEY_ATTR_MAX",
         "OVS_KEY_ATTR_RECIRC_ID", 20 >>,
      << "OVS_TUNNEL_KEY_ATTR_MAX",
         "OVS_TUNNEL_KEY_ATTR_GENEVE_OPTS", 8 >>,
      << "OVS_FLOW_ATTR_MAX",
         "OVS_FLOW_ATTR_MASK", 7 >>,
      << "OVS_ACTION_ATTR_MAX",
         "OVS_ACTION_ATTR_HASH", 8 >> }

C23_MaxIsLastEnumerator ==
    (calc.op = "ovs" /\ calc.step = "defined") =>
       LET names == calc.enum.names
           last == Len(names) - 1
       IN  /\ last >= 1
           /\ \A i \in 1..Len(names) : calc.values[i] = i - 1
           /\ calc.max = calc.values[last]
           /\ \A s \in C23_Stated :
                 calc.enum.max = s[1] =>
                    /\ names[last] = s[2]
                    /\ calc.max = s[3]
                    /\ calc.values[last] = s[3]

\* ovs_key_attr, the longest enum: 22 enumerators and OVS_KEY_ATTR_MAX = 20.
C23_Witness ==
    /\ calc.op = "ovs" /\ calc.step = "defined"
    /\ calc.enum.enum = "ovs_key_attr" /\ calc.enum.max = "OVS_KEY_ATTR_MAX"
    /\ Len(calc.values) = 22
    /\ calc.enum.names[21] = "OVS_KEY_ATTR_RECIRC_ID"
    /\ calc.values[21] = 20 /\ calc.max = 20

\* The number a string of decimal digits stands for, as 16-bit halves.
C24_DigitValue(ch) == CHOOSE d \in 0..9 : Digit(d) = ch
RECURSIVE C24_Value(_)
C24_Value(digits) ==
    IF digits = << >> THEN [hi |-> 0, lo |-> 0]
    ELSE LET v == C24_Value(SubSeq(digits, 1, Len(digits) - 1))
             t == v.lo * 10 + C24_DigitValue(digits[Len(digits)])
         IN  [hi |-> v.hi * 10 + t \div 65536, lo |-> t % 65536]

\* The kernel id as the unsigned int it is cast to.
C24_Unsigned(k) ==
    IF k >= 0 THEN [hi |-> k \div 65536, lo |-> k % 65536]
    ELSE [hi |-> 65535 - ((-(k + 1)) \div 65536),
          lo |-> 65535 - ((-(k + 1)) % 65536)]

(***************************************************************************)
(* C24: the path buffer never truncates: it has                            *)
(* sizeof("/proc/self/task/%u/comm") + 8 = 32 bytes, and for every kernel  *)
(* id in 0..2^32-1 the id has at most 10 decimal digits, the formatted     *)
(* path with its terminator has at most 32 bytes, and the path opened is   *)
(* the whole /proc/self/task/<tid>/comm of that id.                        *)
(***************************************************************************)
C24_PathNeverTruncated ==
    /\ SizeofTaskCommFmt = 24 /\ SizeofCommName = 32
    /\ (calc.op = "path" /\ calc.step = "opened") =>
          /\ Len(calc.comm_name) <= 32
          /\ calc.comm_name[Len(calc.comm_name)] = "\\0"
          /\ calc.entry.found
          /\ Len(calc.entry.dir) <= 10
          /\ Len(calc.entry.dir) > 1 => calc.entry.dir[1] # "0"
          /\ C24_Value(calc.entry.dir) = C24_Unsigned(calc.kernel_id)
          /\ Len(calc.comm_name) = 16 + Len(calc.entry.dir) + 5 + 1

\* The largest id, 4294967295 (a kernel id of -1): the path fills all 32 bytes.
C24_Witness ==
    /\ calc.op = "path" /\ calc.step = "opened"
    /\ calc.kernel_id = -1
    /\ Len(calc.comm_name) = 32
    /\ calc.entry.found
    /\ calc.entry.dir = << "4", "2", "9", "4", "9", "6", "7", "2", "9", "5" >>

====
